---- MODULE Spec2Model ----
(***************************************************************************)
(* Model of the NQ event viewer (src/app.py): timestamp parsing, window    *)
(* resolution, series windowing, entry reconstruction and the annotation   *)
(* layers that build_chart puts on the figure.                             *)
(*                                                                         *)
(* Time is counted in 5-minute bars: instant n is n * 5 minutes after an   *)
(* arbitrary origin, so one hour is 12.                                    *)
(***************************************************************************)
EXTENDS Integers, Sequences, FiniteSets, TLC

VARIABLES
    source,          \* the OHLC csv on disk: [exists, rows]
    event,           \* the selected event record (load_event)
    pc,              \* position inside main / build_chart
    df_5m,           \* the loaded OHLC frame
    start_ts,        \* build_chart local
    end_ts,          \* build_chart local
    df,              \* the windowed frame
    fvg_meta_by_id,  \* build_chart local: fvg id -> start_ts
    fig,             \* the figure under construction
    outcome          \* what main showed: "none", "ohlc_not_found", "chart"

vars == <<source, event, pc, df_5m, start_ts, end_ts, df, fvg_meta_by_id, fig, outcome>>

-----------------------------------------------------------------------------
(* Values.  Every scalar is a record [tag, v] so that values of different  *)
(* Python types can be compared for equality.                              *)

\* Python None: a missing key (dict.get default) or a JSON null.
PyNone == [tag |-> "None", v |-> 0]
\* pandas.NaT: what pd.to_datetime(..., errors="coerce") gives for unparseable input.
NaT == [tag |-> "NaT", v |-> 0]
\* A UTC-aware pandas Timestamp.
Timestamp(n) == [tag |-> "ts", v |-> n]
\* A JSON number.
Num(n) == [tag |-> "num", v |-> n]
\* A JSON float that is not an int (isinstance(x, int) is False).
Float(n) == [tag |-> "float", v |-> n]
\* A JSON string holding a parseable timestamp of instant n.
IsoStr(n) == [tag |-> "iso", v |-> n]
\* A JSON string that is no timestamp.
Garbage == [tag |-> "garbage", v |-> 0]

\* pd.Timedelta(hours=1), in 5-minute bars.
padding == 12

\* parse_ts: None stays None; anything else goes through pd.to_datetime with
\* errors="coerce", which yields NaT (not None) when the value does not parse.
parse_ts(value) ==
    IF value = PyNone THEN PyNone
    ELSE IF value.tag = "iso" THEN Timestamp(value.v)
    ELSE NaT

\* Timestamp + Timedelta; NaT + Timedelta is NaT.
AddDelta(ts, d) == IF ts.tag = "ts" THEN Timestamp(ts.v + d) ELSE ts

\* Comparisons of Timestamp/NaT: every comparison with NaT is False.
TsLt(a, b) == a.tag = "ts" /\ b.tag = "ts" /\ a.v < b.v
TsGt(a, b) == a.tag = "ts" /\ b.tag = "ts" /\ a.v > b.v
TsLe(a, b) == a.tag = "ts" /\ b.tag = "ts" /\ a.v <= b.v
TsGe(a, b) == a.tag = "ts" /\ b.tag = "ts" /\ a.v >= b.v

\* Python's builtin min over a non-empty list: keep the first item unless a
\* later one compares strictly less.
RECURSIVE PyMinFrom(_, _, _)
PyMinFrom(s, i, cur) ==
    IF i > Len(s) THEN cur
    ELSE PyMinFrom(s, i + 1, IF TsLt(s[i], cur) THEN s[i] ELSE cur)

PyMin(s) == PyMinFrom(s, 2, s[1])

\* Python's builtin max over a non-empty list.
RECURSIVE PyMaxFrom(_, _, _)
PyMaxFrom(s, i, cur) ==
    IF i > Len(s) THEN cur
    ELSE PyMaxFrom(s, i + 1, IF TsGt(s[i], cur) THEN s[i] ELSE cur)

PyMax(s) == PyMaxFrom(s, 2, s[1])

NotNone(x) == x # PyNone

\* [parse_ts(x.get(field)) for x in items]
RECURSIVE ParsedField(_, _)
ParsedField(items, field) ==
    IF items = <<>> THEN <<>>
    ELSE <<parse_ts(Head(items)[field])>> \o ParsedField(Tail(items), field)

\* candidates_start of get_time_window, in append order.
candidates_start(ev) ==
    SelectSeq(<<parse_ts(ev.window.bos_window_start),
                parse_ts(ev.touch.window_start),
                parse_ts(ev.touch.ts_event)>>
              \o ParsedField(ev.fvg_5m_in_window, "start_time")
              \o ParsedField(ev.bos_5m_in_window, "ts_event"),
              NotNone)

\* candidates_end of get_time_window, in append order.
candidates_end(ev) ==
    SelectSeq(<<parse_ts(ev.window.bos_window_end),
                parse_ts(ev.touch.window_end),
                parse_ts(ev.touch.ts_event)>>
              \o ParsedField(ev.fvg_5m_in_window, "start_time")
              \o ParsedField(ev.bos_5m_in_window, "ts_event"),
              NotNone)

\* get_time_window: (None, None) when either list is empty, else the padded range.
get_time_window(ev) ==
    IF candidates_start(ev) = <<>> \/ candidates_end(ev) = <<>>
    THEN [start_ts |-> PyNone, end_ts |-> PyNone]
    ELSE [start_ts |-> AddDelta(PyMin(candidates_start(ev)), 0 - padding),
          end_ts |-> AddDelta(PyMax(candidates_end(ev)), padding)]

-----------------------------------------------------------------------------
(* build_chart, one operator per block of the function.                     *)

\* The exit loop without the comparison: end_ts becomes every exit + 1 hour in turn.
RECURSIVE ExtendEnd_overwrite(_, _)
ExtendEnd_overwrite(e, sigs) ==
    IF sigs = <<>> THEN e
    ELSE LET exit_ts == parse_ts(Head(sigs).exit_ts)
         IN ExtendEnd_overwrite(IF exit_ts # PyNone THEN AddDelta(exit_ts, padding) ELSE e,
                                Tail(sigs))

\* The exit loop: end_ts is raised to exit_ts + 1 hour when it is None or smaller.
RECURSIVE ExtendEnd(_, _)
ExtendEnd(e, sigs) ==
    IF sigs = <<>> THEN e
    ELSE LET exit_ts == parse_ts(Head(sigs).exit_ts)
             extended_end == AddDelta(exit_ts, padding)
         IN ExtendEnd(IF exit_ts # PyNone /\ (e = PyNone \/ TsGt(extended_end, e))
                      THEN extended_end ELSE e,
                      Tail(sigs))

\* The boolean mask of the window filter.
InWindow(bar, s, e) == TsGe(bar.ts_event, s) /\ TsLe(bar.ts_event, e)

\* "Apply time window": the inclusive slice when both bounds are not None,
\* else a copy of the full frame.
ApplyWindow(frame, s, e) ==
    IF s # PyNone /\ e # PyNone
    THEN SelectSeq(frame, LAMBDA bar: InWindow(bar, s, e))
    ELSE frame

\* df["ts_event"].max() and .min() of a non-empty frame.
RECURSIVE TsMax(_)
TsMax(frame) ==
    IF Len(frame) = 1 THEN frame[1].ts_event
    ELSE LET m == TsMax(Tail(frame))
         IN IF TsGt(frame[1].ts_event, m) THEN frame[1].ts_event ELSE m

RECURSIVE TsMin(_)
TsMin(frame) ==
    IF Len(frame) = 1 THEN frame[1].ts_event
    ELSE LET m == TsMin(Tail(frame))
         IN IF TsLt(frame[1].ts_event, m) THEN frame[1].ts_event ELSE m

\* The touch trace: one point when the instant and the price are not None.
TouchTrace(ev) ==
    LET touch_ts == parse_ts(ev.touch.ts_event)
        touch_price == ev.touch.price_touched
    IN IF touch_ts # PyNone /\ touch_price # PyNone
       THEN <<[x |-> touch_ts, y |-> touch_price, text |-> "Touch"]>>
       ELSE <<>>

\* The BOS trace: one point per break whose instant is not None.
RECURSIVE BosTrace(_)
BosTrace(bos_5m) ==
    IF bos_5m = <<>> THEN <<>>
    ELSE LET b == Head(bos_5m)
             ts == parse_ts(b.ts_event)
         IN (IF ts = PyNone THEN <<>>
             ELSE <<[x |-> ts, y |-> b.trigger_close, text |-> b.bos_direction]>>)
            \o BosTrace(Tail(bos_5m))

\* An imbalance is drawn when its start is not None and both bounds are present.
FvgDrawn(f) ==
    /\ parse_ts(f.start_time) # PyNone
    /\ f.begin_bound # PyNone
    /\ f.end_bound # PyNone

Min2(a, b) == IF a <= b THEN a ELSE b
Max2(a, b) == IF a >= b THEN a ELSE b

\* mid = (begin + end) / 2.0  (the bounds of the model have an even sum)
Mid(f) == (f.begin_bound.v + f.end_bound.v) \div 2

\* The label of an imbalance marker: the id with the FT/CT indices that are present.
FvgLabel(f) ==
    [id |-> f.fvg_5m_id, ft |-> f.index_first_touch, ct |-> f.index_valid_close_after_touch]

\* The imbalance trace: one midpoint marker per drawn imbalance.
RECURSIVE FvgTrace(_)
FvgTrace(fvg_5m) ==
    IF fvg_5m = <<>> THEN <<>>
    ELSE LET f == Head(fvg_5m)
         IN (IF FvgDrawn(f)
             THEN <<[x |-> parse_ts(f.start_time), y |-> Mid(f), text |-> FvgLabel(f)]>>
             ELSE <<>>)
            \o FvgTrace(Tail(fvg_5m))

\* x1_rect = df["ts_event"].max() if not df.empty else None
X1Rect(frame) == IF frame = <<>> THEN PyNone ELSE TsMax(frame)

\* The light blue rectangles: one per drawn imbalance, when the window has bars.
RECURSIVE FvgShapes(_, _)
FvgShapes(fvg_5m, x1_rect) ==
    IF fvg_5m = <<>> THEN <<>>
    ELSE LET f == Head(fvg_5m)
         IN (IF FvgDrawn(f) /\ x1_rect # PyNone
             THEN <<[x0 |-> parse_ts(f.start_time), x1 |-> x1_rect,
                     y0 |-> Min2(f.begin_bound.v, f.end_bound.v),
                     y1 |-> Max2(f.begin_bound.v, f.end_bound.v)]>>
             ELSE <<>>)
            \o FvgShapes(Tail(fvg_5m), x1_rect)

\* fvg_meta_by_id as a set of (id, start_ts) pairs to apply in order: an entry
\* is written only inside the loop body that follows both "continue"s, and
\* only for a non-empty id; a later imbalance with the same id overwrites.
RECURSIVE FvgMeta(_, _)
FvgMeta(fvg_5m, meta) ==
    IF fvg_5m = <<>> THEN meta
    ELSE LET f == Head(fvg_5m)
         IN FvgMeta(Tail(fvg_5m),
                    IF FvgDrawn(f) /\ f.fvg_5m_id # ""
                    THEN (f.fvg_5m_id :> parse_ts(f.start_time)) @@ meta
                    ELSE meta)

EmptyMeta == [id \in {} |-> PyNone]

\* df_5m[df_5m["ts_event"] >= start_ts_fvg]
FromAnchor(frame, anchor) == SelectSeq(frame, LAMBDA bar: TsGe(bar.ts_event, anchor))

\* .sort_values("ts_event").reset_index(drop=True), as an insertion sort.
RECURSIVE InsertBar(_, _)
InsertBar(bar, sorted) ==
    IF sorted = <<>> THEN <<bar>>
    ELSE IF TsLt(bar.ts_event, Head(sorted).ts_event) THEN <<bar>> \o sorted
    ELSE <<Head(sorted)>> \o InsertBar(bar, Tail(sorted))

RECURSIVE SortByTs(_)
SortByTs(frame) ==
    IF frame = <<>> THEN <<>>
    ELSE InsertBar(frame[Len(frame)], SortByTs(SubSeq(frame, 1, Len(frame) - 1)))

\* The guards of the buy loop that look at the signal alone.
SignalEligible(sig) ==
    /\ sig.fvg_5m_id # ""
    /\ sig.index_valid_close_after_touch.tag = "num"
    /\ sig.index_valid_close_after_touch.v > 0
    /\ sig.signal \in {"buy_long", "buy_short"}

\* One iteration of the buy loop: no marker ("continue") or the marker appended.
EntryMarker(sig, meta, frame) ==
    IF ~SignalEligible(sig) \/ sig.fvg_5m_id \notin DOMAIN meta THEN <<>>
    ELSE LET idx_ct == sig.index_valid_close_after_touch.v
             df_slice == SortByTs(FromAnchor(frame, meta[sig.fvg_5m_id]))
         IN IF Len(df_slice) <= idx_ct THEN <<>>
            ELSE <<[x |-> df_slice[idx_ct + 1].ts_event,
                    y |-> df_slice[idx_ct + 1].close,
                    text |-> IF sig.signal = "buy_long" THEN "buy_l" ELSE "buy_s"]>>

\* The buy loop with "break" where the code has "continue" for an offset
\* past the end of the slice.
RECURSIVE BuyTrace_break(_, _, _)
BuyTrace_break(sigs, meta, frame) ==
    IF sigs = <<>> THEN <<>>
    ELSE IF /\ SignalEligible(Head(sigs))
            /\ Head(sigs).fvg_5m_id \in DOMAIN meta
            /\ EntryMarker(Head(sigs), meta, frame) = <<>>
         THEN <<>>
         ELSE EntryMarker(Head(sigs), meta, frame) \o BuyTrace_break(Tail(sigs), meta, frame)

\* The buy trace: the markers of all signals, in signal order.
RECURSIVE BuyTrace(_, _, _)
BuyTrace(sigs, meta, frame) ==
    IF sigs = <<>> THEN <<>>
    ELSE EntryMarker(Head(sigs), meta, frame) \o BuyTrace(Tail(sigs), meta, frame)

\* One iteration of the sell loop.  exit_ts is tested for truth, and NaT is truthy.
ExitMarker(sig) ==
    LET exit_ts == parse_ts(sig.exit_ts)
    IN IF sig.exit_signal # "" /\ exit_ts # PyNone /\ sig.exit_price # PyNone
       THEN <<[x |-> exit_ts, y |-> sig.exit_price.v, text |-> sig.exit_signal]>>
       ELSE <<>>

RECURSIVE SellTrace(_)
SellTrace(sigs) ==
    IF sigs = <<>> THEN <<>>
    ELSE ExitMarker(Head(sigs)) \o SellTrace(Tail(sigs))

\* The hourly FVG band across the visible frame.
HourlyBand(hourly, frame) ==
    IF hourly.begin_bound # PyNone /\ hourly.end_bound # PyNone /\ frame # <<>>
    THEN <<[x0 |-> TsMin(frame), x1 |-> TsMax(frame),
            y0 |-> Min2(hourly.begin_bound.v, hourly.end_bound.v),
            y1 |-> Max2(hourly.begin_bound.v, hourly.end_bound.v)]>>
    ELSE <<>>

\* The dotted vertical lines at the BOS window bounds that are not None.
VLines(window) ==
    SelectSeq(<<parse_ts(window.bos_window_start), parse_ts(window.bos_window_end)>>,
              NotNone)

\* go.Figure() before any trace is added.
EmptyFig ==
    [candlestick |-> <<>>, touch |-> <<>>, bos |-> <<>>, fvg |-> <<>>, shapes |-> <<>>,
     buys |-> <<>>, sells |-> <<>>, band |-> <<>>, vlines |-> <<>>]

\* The window build_chart filters with: get_time_window, then the exit loop.
FinalWindow(ev) ==
    [start_ts |-> get_time_window(ev).start_ts,
     end_ts |-> ExtendEnd(get_time_window(ev).end_ts, ev.trade_signals)]

\* The frame build_chart draws.
Windowed(frame, ev) == ApplyWindow(frame, FinalWindow(ev).start_ts, FinalWindow(ev).end_ts)

\* build_chart as a function of its two arguments.
build_chart(frame, ev) ==
    [candlestick |-> Windowed(frame, ev),
     touch |-> TouchTrace(ev),
     bos |-> BosTrace(ev.bos_5m_in_window),
     fvg |-> FvgTrace(ev.fvg_5m_in_window),
     shapes |-> FvgShapes(ev.fvg_5m_in_window, X1Rect(Windowed(frame, ev))),
     buys |-> BuyTrace(ev.trade_signals, FvgMeta(ev.fvg_5m_in_window, EmptyMeta), frame),
     sells |-> SellTrace(ev.trade_signals),
     band |-> HourlyBand(ev.hourly_fvg, Windowed(frame, ev)),
     vlines |-> VLines(ev.window)]

\* load_ohlc_5m: read the rows and coerce the ts_event column.
RECURSIVE load_ohlc_5m(_)
load_ohlc_5m(rows) ==
    IF rows = <<>> THEN <<>>
    ELSE <<[ts_event |-> parse_ts(Head(rows).ts_event), close |-> Head(rows).close]>>
         \o load_ohlc_5m(Tail(rows))

-----------------------------------------------------------------------------
(* The program: main, then build_chart block by block.                      *)

\* main: the OHLC file is missing: st.error and return.
MainNoSource ==
    /\ pc = "main"
    /\ ~source.exists
    /\ outcome' = "ohlc_not_found"
    /\ pc' = "done"
    /\ UNCHANGED <<source, event, df_5m, start_ts, end_ts, df, fvg_meta_by_id, fig>>

\* main: the file exists: load it and enter build_chart.
MainLoad ==
    /\ pc = "main"
    /\ source.exists
    /\ df_5m' = load_ohlc_5m(source.rows)
    /\ pc' = "window"
    /\ UNCHANGED <<source, event, start_ts, end_ts, df, fvg_meta_by_id, fig, outcome>>

\* start_ts, end_ts = get_time_window(event)
ResolveWindow ==
    /\ pc = "window"
    /\ start_ts' = get_time_window(event).start_ts
    /\ end_ts' = get_time_window(event).end_ts
    /\ pc' = "extend"
    /\ UNCHANGED <<source, event, df_5m, df, fvg_meta_by_id, fig, outcome>>

\* The loop that extends end_ts to every exit + 1 hour.
ExtendForExits ==
    /\ pc = "extend"
    /\ end_ts' = ExtendEnd(end_ts, event.trade_signals)
    /\ pc' = "slice"
    /\ UNCHANGED <<source, event, df_5m, start_ts, df, fvg_meta_by_id, fig, outcome>>

\* Apply the time window and add the candlestick trace.
WindowSeries ==
    /\ pc = "slice"
    /\ df' = ApplyWindow(df_5m, start_ts, end_ts)
    /\ fig' = [EmptyFig EXCEPT !.candlestick = df']
    /\ pc' = "touch"
    /\ UNCHANGED <<source, event, df_5m, start_ts, end_ts, fvg_meta_by_id, outcome>>

AddTouch ==
    /\ pc = "touch"
    /\ fig' = [fig EXCEPT !.touch = TouchTrace(event)]
    /\ pc' = "bos"
    /\ UNCHANGED <<source, event, df_5m, start_ts, end_ts, df, fvg_meta_by_id, outcome>>

AddBos ==
    /\ pc = "bos"
    /\ fig' = [fig EXCEPT !.bos = BosTrace(event.bos_5m_in_window)]
    /\ pc' = "fvg"
    /\ UNCHANGED <<source, event, df_5m, start_ts, end_ts, df, fvg_meta_by_id, outcome>>

\* The imbalance loop: markers, rectangles and fvg_meta_by_id.
AddFvg ==
    /\ pc = "fvg"
    /\ fig' = [fig EXCEPT !.fvg = FvgTrace(event.fvg_5m_in_window),
                          !.shapes = FvgShapes(event.fvg_5m_in_window, X1Rect(df))]
    /\ fvg_meta_by_id' = FvgMeta(event.fvg_5m_in_window, EmptyMeta)
    /\ pc' = "buys"
    /\ UNCHANGED <<source, event, df_5m, start_ts, end_ts, df, outcome>>

AddBuys ==
    /\ pc = "buys"
    /\ fig' = [fig EXCEPT !.buys = BuyTrace(event.trade_signals, fvg_meta_by_id, df_5m)]
    /\ pc' = "sells"
    /\ UNCHANGED <<source, event, df_5m, start_ts, end_ts, df, fvg_meta_by_id, outcome>>

AddSells ==
    /\ pc = "sells"
    /\ fig' = [fig EXCEPT !.sells = SellTrace(event.trade_signals)]
    /\ pc' = "band"
    /\ UNCHANGED <<source, event, df_5m, start_ts, end_ts, df, fvg_meta_by_id, outcome>>

AddBand ==
    /\ pc = "band"
    /\ fig' = [fig EXCEPT !.band = HourlyBand(event.hourly_fvg, df)]
    /\ pc' = "vlines"
    /\ UNCHANGED <<source, event, df_5m, start_ts, end_ts, df, fvg_meta_by_id, outcome>>

\* The vertical lines, the return of the figure and st.plotly_chart in main.
AddVLines ==
    /\ pc = "vlines"
    /\ fig' = [fig EXCEPT !.vlines = VLines(event.window)]
    /\ outcome' = "chart"
    /\ pc' = "done"
    /\ UNCHANGED <<source, event, df_5m, start_ts, end_ts, df, fvg_meta_by_id>>

Next ==
    \/ MainNoSource
    \/ MainLoad
    \/ ResolveWindow
    \/ ExtendForExits
    \/ WindowSeries
    \/ AddTouch
    \/ AddBos
    \/ AddFvg
    \/ AddBuys
    \/ AddSells
    \/ AddBand
    \/ AddVLines

-----------------------------------------------------------------------------
(* Inputs: the event records and OHLC files the runs start from.            *)

\* Largest relative offset a trade signal declares.
MaxOffset == 3
\* Largest number of trade signals in an event record.
MaxSignals == 2

\* Instants that event fields name, and instants that have a bar.
EventInstants == {30, 50}
BarTimes == {10, 30, 31, 50}

\* What a timestamp field of an event can hold: missing/null, a string that
\* does not parse, or a parseable timestamp.
RawTs == {PyNone, Garbage} \cup {IsoStr(t) : t \in EventInstants}

\* The csv rows with the instants of S, ascending; close prices differ per bar.
RECURSIVE Rows(_)
Rows(S) ==
    IF S = {} THEN <<>>
    ELSE LET t == CHOOSE x \in S : \A y \in S : x <= y
         IN <<[ts_event |-> IsoStr(t), close |-> 1000 + t]>> \o Rows(S \ {t})

NoSource == [exists |-> FALSE, rows |-> <<>>]
File(S) == [exists |-> TRUE, rows |-> Rows(S)]

NoTouch == [window_start |-> PyNone, window_end |-> PyNone,
            ts_event |-> PyNone, price_touched |-> PyNone]
NoWindow == [bos_window_start |-> PyNone, bos_window_end |-> PyNone]
NoHourly == [begin_bound |-> PyNone, end_bound |-> PyNone, start_time |-> PyNone]
Hourly == [begin_bound |-> Num(90), end_bound |-> Num(110), start_time |-> IsoStr(10)]

Fvg(id, start, begin, end) ==
    [fvg_5m_id |-> id, start_time |-> start, begin_bound |-> begin, end_bound |-> end,
     index_first_touch |-> Num(1), index_valid_close_after_touch |-> Num(2)]

Bos(ts) == [ts_event |-> ts, trigger_close |-> Num(105), bos_direction |-> "up"]

Sig(kind, id, idx, exit_ts) ==
    [signal |-> kind, fvg_5m_id |-> id, index_valid_close_after_touch |-> idx,
     entry_ts |-> IsoStr(30),
     exit_signal |-> "tp", exit_ts |-> exit_ts, exit_price |-> Num(120)]

\* Event records for the window, with timestamp fields drawn from R: every
\* combination of the window and touch instants, with imbalances, breaks and
\* exits.
WindowEvents(R) ==
    {[window |-> [bos_window_start |-> a, bos_window_end |-> b],
      touch |-> [window_start |-> IF w THEN IsoStr(30) ELSE PyNone,
                 window_end |-> IF w THEN IsoStr(50) ELSE PyNone,
                 ts_event |-> c, price_touched |-> Num(100)],
      fvg_5m_in_window |-> f,
      bos_5m_in_window |-> g,
      hourly_fvg |-> h,
      trade_signals |-> x] :
        a \in R, b \in R, c \in R, w \in BOOLEAN,
        f \in {<<>>} \cup {<<Fvg("F1", r, Num(100), Num(102))>> : r \in R \ {PyNone, IsoStr(50)}},
        g \in {<<>>} \cup {<<Bos(r)>> : r \in R \ {PyNone, IsoStr(30)}},
        h \in {NoHourly, Hourly},
        x \in {<<>>}
              \cup {<<Sig("buy_long", "F1", Num(2), r)>> : r \in R \ {PyNone}}
              \cup {<<Sig("buy_long", "F1", Num(1), r), Sig("buy_short", "F1", Num(1), IsoStr(50))>> :
                        r \in R \ {PyNone, IsoStr(50)}}}

WindowSources == {NoSource, File({}), File(BarTimes)}

\* The first trade signal of an entry record: every anchor with every offset,
\* and the other kinds and exits on a valid anchor.
FirstSignals ==
    {Sig("buy_long", id, idx, PyNone) :
        id \in {"", "F1", "F2", "F9"},
        idx \in {Num(k) : k \in -1..MaxOffset} \cup {Float(1), PyNone}}
    \cup {Sig(kind, "F1", Num(1), x) :
            kind \in {"buy_short", "sell_long"}, x \in {PyNone, IsoStr(50)}}
    \cup {Sig("buy_long", "F1", Num(2), IsoStr(50))}

\* The signals that follow the first.
NextSignals == {Sig("buy_short", "F1", Num(1), IsoStr(50)), Sig("buy_long", "F2", Num(1), PyNone)}

SignalLists ==
    {<<>>} \cup
    UNION {{<<a>> \o t : a \in FirstSignals, t \in [1..(n - 1) -> NextSignals]} :
              n \in 1..MaxSignals}

\* The imbalance lists of an entry record: F1 with every start and with a
\* bound missing or not, alone or followed by F2; one imbalance without id.
FvgLists(R) ==
    {<<>>, <<Fvg("", IsoStr(30), Num(100), Num(102))>>}
    \cup UNION {{<<Fvg("F1", r, b[1], b[2])>> \o t :
                    t \in {<<>>, <<Fvg("F2", IsoStr(50), Num(104), Num(106))>>}} :
                 r \in R,
                 b \in {<<Num(100), Num(102)>>, <<PyNone, Num(102)>>, <<Num(100), PyNone>>}}

\* Event records for entry reconstruction: a touch at 30, imbalances and signals.
EntryEvents(R) ==
    {[window |-> NoWindow,
      touch |-> [NoTouch EXCEPT !.ts_event = IsoStr(30), !.price_touched = Num(100)],
      fvg_5m_in_window |-> f,
      bos_5m_in_window |-> <<>>,
      hourly_fvg |-> Hourly,
      trade_signals |-> x] :
        f \in FvgLists(R), x \in SignalLists}

EntrySources == {NoSource, File({}), File({10, 30}), File({30, 31, 50}), File(BarTimes)}

InitBuild ==
    /\ pc = "main"
    /\ df_5m = <<>>
    /\ start_ts = PyNone
    /\ end_ts = PyNone
    /\ df = <<>>
    /\ fvg_meta_by_id = EmptyMeta
    /\ fig = EmptyFig
    /\ outcome = "none"

\* The runs over a set R of timestamp field values.
InitOver(R) ==
    /\ \/ source \in WindowSources /\ event \in WindowEvents(R)
       \/ source \in EntrySources /\ event \in EntryEvents(R)
    /\ InitBuild

\* Event records whose timestamp fields may be missing, malformed or valid.
Init == InitOver(RawTs)

\* Event records whose timestamp fields are missing or valid, never malformed.
InitClean == InitOver(RawTs \ {Garbage})

Spec == Init /\ [][Next]_vars

SpecClean == InitClean /\ [][Next]_vars


-----------------------------------------------------------------------------
(* Vocabulary of the properties, read off the event record itself.          *)

Range(seq) == {seq[i] : i \in DOMAIN seq}

\* The instants of the values of V that are parseable timestamps.
Resolvable(V) == {r.v : r \in {x \in V : x.tag = "iso"}}

FieldValues(items, field) == {items[i][field] : i \in DOMAIN items}

\* The candidates that count for both bounds: touch instant, imbalance starts,
\* structure-break instants.
PointCandidates(ev) ==
    Resolvable({ev.touch.ts_event}
               \cup FieldValues(ev.fvg_5m_in_window, "start_time")
               \cup FieldValues(ev.bos_5m_in_window, "ts_event"))

StartCandidates(ev) ==
    Resolvable({ev.window.bos_window_start, ev.touch.window_start}) \cup PointCandidates(ev)

EndCandidates(ev) ==
    Resolvable({ev.window.bos_window_end, ev.touch.window_end}) \cup PointCandidates(ev)

ExitInstants(ev) == Resolvable(FieldValues(ev.trade_signals, "exit_ts"))

\* Every timestamp value the record holds anywhere.
AllTimestampValues(ev) ==
    {ev.window.bos_window_start, ev.window.bos_window_end, ev.touch.window_start,
     ev.touch.window_end, ev.touch.ts_event, ev.hourly_fvg.start_time}
    \cup FieldValues(ev.fvg_5m_in_window, "start_time")
    \cup FieldValues(ev.bos_5m_in_window, "ts_event")
    \cup FieldValues(ev.trade_signals, "entry_ts")
    \cup FieldValues(ev.trade_signals, "exit_ts")

IsInstant(x) == x.tag = "ts"

SetMax(S) == CHOOSE x \in S : \A y \in S : y <= x

\* get_time_window has returned.
WindowResolved == pc \notin {"main", "window"} /\ outcome # "ohlc_not_found"
\* The exit loop has run.
WindowExtended == pc \notin {"main", "window", "extend"} /\ outcome # "ohlc_not_found"
\* The frame has been windowed.
SeriesWindowed == pc \notin {"main", "window", "extend", "slice"} /\ outcome # "ohlc_not_found"
\* build_chart has returned.
ChartBuilt == pc = "done" /\ outcome = "chart"

\* The places of an event record a field can be read from or removed at:
\* [part, i, field], i = 0 for the parts that are one object.
Path(part, i, field) == [part |-> part, i |-> i, field |-> field]

FieldAt(ev, p) ==
    IF p.i = 0 THEN ev[p.part][p.field] ELSE ev[p.part][p.i][p.field]

\* The record with the field at p holding val (PyNone: the field removed).
WithField(ev, p, val) ==
    IF p.i = 0
    THEN [ev EXCEPT ![p.part] = [@ EXCEPT ![p.field] = val]]
    ELSE [ev EXCEPT ![p.part] = [@ EXCEPT ![p.i] = [@ EXCEPT ![p.field] = val]]]

\* The timestamp fields build_chart reads.
TimestampPaths(ev) ==
    {Path("window", 0, f) : f \in {"bos_window_start", "bos_window_end"}}
    \cup {Path("touch", 0, f) : f \in {"window_start", "window_end", "ts_event"}}
    \cup {Path("fvg_5m_in_window", i, "start_time") : i \in DOMAIN ev.fvg_5m_in_window}
    \cup {Path("bos_5m_in_window", i, "ts_event") : i \in DOMAIN ev.bos_5m_in_window}
    \cup {Path("trade_signals", i, "exit_ts") : i \in DOMAIN ev.trade_signals}

\* The start instants of the imbalances of the record that carry identifier id.
AnchorStarts(ev, id) ==
    Resolvable({f.start_time : f \in {g \in Range(ev.fvg_5m_in_window) : g.fvg_5m_id = id}})

\* The bars of the frame at or after instant s.
BarsFrom(frame, s) == {bar \in Range(frame) : bar.ts_event.v >= s}

\* The bar with zero-based rank k among B in ascending instant order.
BarAtRank(B, k) ==
    CHOOSE b \in B : Cardinality({c \in B : c.ts_event.v < b.ts_event.v}) = k

\* An entry signal with a positive integer offset and an anchor identifier.
IsEntrySignal(sig) ==
    /\ sig.signal \in {"buy_long", "buy_short"}
    /\ sig.index_valid_close_after_touch.tag = "num"
    /\ sig.index_valid_close_after_touch.v > 0
    /\ sig.fvg_5m_id # ""

\* The (instant, close) the signal's entry marker is to have, as a sequence of
\* at most one pair: the bar at the signal's offset among the bars from its
\* anchor's start.
ExpectedEntry(sig, ev, frame) ==
    IF IsEntrySignal(sig) /\ AnchorStarts(ev, sig.fvg_5m_id) # {}
    THEN LET s == CHOOSE t \in AnchorStarts(ev, sig.fvg_5m_id) : TRUE
             k == sig.index_valid_close_after_touch.v
         IN IF k >= Cardinality(BarsFrom(frame, s)) THEN <<>>
            ELSE <<<<BarAtRank(BarsFrom(frame, s), k).ts_event,
                     BarAtRank(BarsFrom(frame, s), k).close>>>>
    ELSE <<>>

RECURSIVE ExpectedEntries(_, _, _)
ExpectedEntries(sigs, ev, frame) ==
    IF sigs = <<>> THEN <<>>
    ELSE ExpectedEntry(Head(sigs), ev, frame) \o ExpectedEntries(Tail(sigs), ev, frame)

\* The (instant, price) pairs of a marker trace.
XY(trace) == [i \in DOMAIN trace |-> <<trace[i].x, trace[i].y>>]

RemoveAt(seq, j) == SubSeq(seq, 1, j - 1) \o SubSeq(seq, j + 1, Len(seq))

-----------------------------------------------------------------------------
\* C1: whenever some window candidate of the record is resolvable,
\* get_time_window returns a window of two instants that contains every
\* resolvable candidate; it returns (None, None) only when the record has no
\* resolvable start candidate and no resolvable end candidate.
C1_WindowCoversCandidates ==
    (pc = "extend") =>
        /\ (StartCandidates(event) \cup EndCandidates(event) # {}) =>
              /\ IsInstant(start_ts)
              /\ IsInstant(end_ts)
              /\ \A c \in StartCandidates(event) \cup EndCandidates(event) :
                    start_ts.v <= c /\ c <= end_ts.v
        /\ (start_ts = PyNone /\ end_ts = PyNone) =>
              (StartCandidates(event) = {} /\ EndCandidates(event) = {})

\* C2: a record with no resolvable instant anywhere resolves to (None, None)
\* and is drawn on the full series; whenever a bound of the final window is no
\* instant, the windowed series is the full series.
C2_NoInstantFullSeries ==
    SeriesWindowed =>
        /\ (Resolvable(AllTimestampValues(event)) = {}) =>
              /\ get_time_window(event) = [start_ts |-> PyNone, end_ts |-> PyNone]
              /\ df = df_5m
        /\ (~IsInstant(start_ts) \/ ~IsInstant(end_ts)) => df = df_5m

\* C3: after the exit loop the end of the window is an instant at or after
\* exit + 1 hour for every resolvable exit, it is the largest of the padded
\* structural end and the exits + 1 hour, and the start is the resolver's.
C3_EndCoversExits ==
    (pc = "slice" /\ ExitInstants(event) # {}) =>
        /\ IsInstant(end_ts)
        /\ \A x \in ExitInstants(event) : end_ts.v >= x + padding
        /\ end_ts.v = SetMax({x + padding : x \in ExitInstants(event)}
                             \cup {e.v : e \in {y \in {get_time_window(event).end_ts} : IsInstant(y)}})
        /\ start_ts = get_time_window(event).start_ts

\* C8: a missing OHLC file or an empty OHLC series ends the build with the
\* explicit "not found" outcome, and a chart that is shown has candles.
C8_NoSilentEmptyChart ==
    (pc = "done") =>
        /\ (~source.exists \/ source.rows = <<>>) => outcome = "ohlc_not_found"
        /\ (outcome = "chart") => fig.candlestick # <<>>


\* C4: a timestamp field holding an unparseable value behaves as if the field
\* were removed: same final window, same chart (windowed series and layers),
\* and no unparseable value among the window candidates.
C4_MalformedIsAbsent ==
    ChartBuilt =>
        /\ \A p \in TimestampPaths(event) :
              (FieldAt(event, p) = Garbage) =>
                  /\ FinalWindow(event) = FinalWindow(WithField(event, p, PyNone))
                  /\ fig = build_chart(df_5m, WithField(event, p, PyNone))
        /\ \A c \in Range(candidates_start(event)) \cup Range(candidates_end(event)) :
              IsInstant(c)

\* The instants of the point markers a chart shows.
StructureMarkerInstants(f) ==
    {m.x : m \in Range(f.touch)} \cup {m.x : m \in Range(f.bos)} \cup {m.x : m \in Range(f.fvg)}

MarkerInstants(f) ==
    StructureMarkerInstants(f) \cup {m.x : m \in Range(f.buys)} \cup {m.x : m \in Range(f.sells)}

\* C9 as stated: a final window of two instants contains every resolvable
\* instant of the record (reference imbalance start, entry and exit instants
\* included) and the instant of every point marker of the chart that has one.
C9_WindowCoversEverything ==
    (ChartBuilt /\ IsInstant(start_ts) /\ IsInstant(end_ts)) =>
        /\ \A t \in Resolvable(AllTimestampValues(event)) :
              start_ts.v <= t /\ t <= end_ts.v
        /\ \A x \in MarkerInstants(fig) :
              IsInstant(x) => (start_ts.v <= x.v /\ x.v <= end_ts.v)

\* C9 amended: a final window of two instants starts at or before every
\* resolvable start candidate, ends at or after every resolvable end
\* candidate and at or after exit + 1 hour for every resolvable exit; so the
\* touch, structure-break and imbalance markers with a resolvable instant lie
\* inside it.
C9_WindowCoversCandidatesAndExits ==
    (WindowExtended /\ IsInstant(start_ts) /\ IsInstant(end_ts)) =>
        /\ \A c \in StartCandidates(event) : start_ts.v <= c
        /\ \A c \in EndCandidates(event) : c <= end_ts.v
        /\ \A x \in ExitInstants(event) : x + padding <= end_ts.v
        /\ \A x \in StructureMarkerInstants(fig) :
              IsInstant(x) => (start_ts.v <= x.v /\ x.v <= end_ts.v)

\* C9 witness: a chart whose window of two instants was raised by an exit
\* beyond the padded structural end and that shows a touch marker.
C9_Witness ==
    /\ ChartBuilt
    /\ IsInstant(start_ts)
    /\ IsInstant(end_ts)
    /\ IsInstant(get_time_window(event).end_ts)
    /\ end_ts.v > get_time_window(event).end_ts.v
    /\ StartCandidates(event) # EndCandidates(event)
    /\ fig.touch # <<>>


\* C5: the entry markers of the chart are, signal by signal, the bar at the
\* signal's zero-based offset among the bars of the full series at or after
\* its anchor imbalance's start instant, with that bar's close; a signal with
\* an out-of-range offset, a non-positive or non-integer offset or another
\* kind has no entry marker.
C5_EntryAtOffsetFromAnchor ==
    ChartBuilt => XY(fig.buys) = ExpectedEntries(event.trade_signals, event, df_5m)

\* C10: every imbalance with an identifier and a resolvable start instant is
\* in the anchor mapping whatever its price bounds, and an entry signal with an
\* in-range offset anchored to an imbalance that misses a bound has its entry
\* marker.
C10_AnchorsIgnoreBounds ==
    ChartBuilt =>
        /\ \A f \in Range(event.fvg_5m_in_window) :
              (f.fvg_5m_id # "" /\ f.start_time.tag = "iso") =>
                  /\ f.fvg_5m_id \in DOMAIN fvg_meta_by_id
                  /\ fvg_meta_by_id[f.fvg_5m_id] = Timestamp(f.start_time.v)
        /\ \A i \in DOMAIN event.trade_signals :
              \A m \in Range(ExpectedEntry(event.trade_signals[i], event, df_5m)) :
                  m \in Range(XY(fig.buys))


\* The identifiers the imbalances of the record carry.
AnchorIds(ev) == {f.fvg_5m_id : f \in Range(ev.fvg_5m_in_window)} \ {""}

\* A signal with a missing or unknown anchor identifier, or an entry signal
\* whose offset is past the bars from its anchor's start.
Dropped(sig, ev, frame) ==
    \/ sig.fvg_5m_id = ""
    \/ sig.fvg_5m_id \notin AnchorIds(ev)
    \/ /\ IsEntrySignal(sig)
       /\ \E s \in AnchorStarts(ev, sig.fvg_5m_id) :
             sig.index_valid_close_after_touch.v >= Cardinality(BarsFrom(frame, s))

\* The anchors and offsets that are valid and in range on the frame.
ValidAnchorings(ev, frame) ==
    {a \in AnchorIds(ev) \X (1..MaxOffset) :
        \E s \in AnchorStarts(ev, a[1]) : a[2] < Cardinality(BarsFrom(frame, s))}

\* The record with signal i anchored at a = <<identifier, offset>>.
Reanchored(ev, i, a) ==
    WithField(WithField(ev, Path("trade_signals", i, "fvg_5m_id"), a[1]),
              Path("trade_signals", i, "index_valid_close_after_touch"), Num(a[2]))

\* C7: a signal with a missing or unknown anchor or an out-of-range offset
\* changes nothing but its own entry marker: against the same record with the
\* signal validly anchored in range, the final window, the windowed series and
\* every layer but the entry markers are the same, and the entry markers are
\* the same but for that signal's.
C7_DroppedSignalOnlyLosesEntry ==
    ChartBuilt =>
        \A i \in DOMAIN event.trade_signals :
            Dropped(event.trade_signals[i], event, df_5m) =>
                \A a \in ValidAnchorings(event, df_5m) :
                    LET ev2 == Reanchored(event, i, a)
                        other == build_chart(df_5m, ev2)
                    IN /\ FinalWindow(ev2) = [start_ts |-> start_ts, end_ts |-> end_ts]
                       /\ [other EXCEPT !.buys = <<>>] = [fig EXCEPT !.buys = <<>>]
                       /\ \/ other.buys = fig.buys
                          \/ \E j \in DOMAIN other.buys :
                                /\ XY(other.buys)[j] \in
                                      Range(ExpectedEntry(ev2.trade_signals[i], ev2, df_5m))
                                /\ RemoveAt(other.buys, j) = fig.buys

\* C7 witness: a chart with an exit marker and an entry marker of another
\* signal, built from a record whose first signal is dropped and would have an
\* entry marker of its own if validly anchored.
C7_Witness ==
    /\ ChartBuilt
    /\ Len(event.trade_signals) >= 2
    /\ Dropped(event.trade_signals[1], event, df_5m)
    /\ fig.buys # <<>>
    /\ fig.sells # <<>>
    /\ \E a \in ValidAnchorings(event, df_5m) :
          Len(build_chart(df_5m, Reanchored(event, 1, a)).buys) = Len(fig.buys) + 1


\* A record with every optional field populated with a usable value.
FullyPopulated(ev) ==
    /\ \A p \in TimestampPaths(ev) : FieldAt(ev, p).tag = "iso"
    /\ ev.touch.price_touched # PyNone
    /\ ev.hourly_fvg.begin_bound # PyNone
    /\ ev.hourly_fvg.end_bound # PyNone
    /\ ev.hourly_fvg.start_time.tag = "iso"
    /\ ev.fvg_5m_in_window # <<>>
    /\ ev.bos_5m_in_window # <<>>
    /\ ev.trade_signals # <<>>
    /\ \A f \in Range(ev.fvg_5m_in_window) :
          f.begin_bound # PyNone /\ f.end_bound # PyNone /\ f.fvg_5m_id # ""
    /\ \A x \in Range(ev.trade_signals) : x.exit_price # PyNone /\ x.exit_signal # ""

\* The optional fields one can remove from a record.
OptionalPaths(ev) ==
    TimestampPaths(ev)
    \cup {Path("touch", 0, "price_touched")}
    \cup {Path("hourly_fvg", 0, f) : f \in {"begin_bound", "end_bound", "start_time"}}
    \cup {Path("fvg_5m_in_window", i, f) :
            i \in DOMAIN ev.fvg_5m_in_window, f \in {"begin_bound", "end_bound"}}
    \cup {Path("trade_signals", i, "exit_price") : i \in DOMAIN ev.trade_signals}

\* The chart f of a fully populated record without the layer or marker that
\* belongs to the field at p.
WithoutLayerOf(f, p) ==
    CASE p.part = "touch" /\ p.field \in {"ts_event", "price_touched"} ->
            [f EXCEPT !.touch = <<>>]
      [] p.part = "touch" /\ p.field \in {"window_start", "window_end"} -> f
      [] p.part = "window" ->
            [f EXCEPT !.vlines = RemoveAt(@, IF p.field = "bos_window_start" THEN 1 ELSE 2)]
      [] p.part = "fvg_5m_in_window" ->
            [f EXCEPT !.fvg = RemoveAt(@, p.i),
                      !.shapes = IF @ = <<>> THEN @ ELSE RemoveAt(@, p.i)]
      [] p.part = "bos_5m_in_window" -> [f EXCEPT !.bos = RemoveAt(@, p.i)]
      [] p.part = "hourly_fvg" /\ p.field = "start_time" -> f
      [] p.part = "hourly_fvg" /\ p.field # "start_time" -> [f EXCEPT !.band = <<>>]
      [] p.part = "trade_signals" -> [f EXCEPT !.sells = RemoveAt(@, p.i)]

\* C6: removing one optional field from a fully populated record removes the
\* layer or marker of that field and leaves the windowed series and every
\* other layer, marker and region as they were.
C6_RemovalRemovesOwnLayerOnly ==
    (ChartBuilt /\ FullyPopulated(event)) =>
        \A p \in OptionalPaths(event) :
            build_chart(df_5m, WithField(event, p, PyNone)) = WithoutLayerOf(fig, p)

\* The removals of C6 that take a price bound from an imbalance.
C6_BoundRemoval ==
    (ChartBuilt /\ FullyPopulated(event)) =>
        \A p \in {q \in OptionalPaths(event) :
                    q.part = "fvg_5m_in_window" /\ q.field \in {"begin_bound", "end_bound"}} :
            build_chart(df_5m, WithField(event, p, PyNone)) = WithoutLayerOf(fig, p)

\* The removals of C6 that take a field no window candidate and no anchor
\* depends on.
C6_PriceRemoval ==
    (ChartBuilt /\ FullyPopulated(event)) =>
        \A p \in {q \in OptionalPaths(event) :
                    q.part \in {"hourly_fvg"} \/ q.field \in {"price_touched", "exit_price"}} :
            build_chart(df_5m, WithField(event, p, PyNone)) = WithoutLayerOf(fig, p)

====
